---- MODULE Spec2Model ----
(***************************************************************************)
(* PetSphere backend (src/petsphere-backend-complete.py): the fixed-window *)
(* rate limiter, the "current user" dependency, the request-scoped         *)
(* database session, upload validation and the content-addressed photo     *)
(* store of create_pet.                                                    *)
(***************************************************************************)
EXTENDS Integers, Sequences, FiniteSets, TLC

\* ------------------------------------------------------------------ bounds
MaxTime == 90         \* the clock stops advancing here (seconds)
TickLen == 30         \* granularity of the clock (seconds)
MaxCalls == 62        \* direct calls of check_rate_limit in SpecLimiter

\* ------------------------------------------------------- program constants
RATE_LIMIT_PER_MINUTE == 60
BucketWidth == 60
ExpireSeconds == 90

MAX_UPLOAD_SIZE == 5242880
ALLOWED_FILE_TYPES == {"image/jpeg", "image/png", "application/pdf"}

Workers == {1, 2}                    \* concurrent requests / limiter callers
UserIds == {1}                       \* rows of the users table
Subjects == {1, 2}                   \* subjects a signed token can carry
Buckets == 0..(MaxTime \div BucketWidth)
Keys == Subjects \X Buckets          \* "rate_limit:{user_id}:{bucket}"
NoExpiry == -1                       \* a Redis key without a time to live

Min(a, b) == IF a <= b THEN a ELSE b

\* ------------------------------------------------------------------ values
NoError == [kind |-> "None", status |-> 0, detail |-> ""]
HTTPException(status, detail) ==
  [kind |-> "HTTPException", status |-> status, detail |-> detail]
Unauthorized(msg) == [kind |-> "Unauthorized", status |-> 0, detail |-> msg]
SQLAlchemyError(msg) == [kind |-> "SQLAlchemyError", status |-> 0, detail |-> msg]

\* an upload's bytes: `len` bytes generated from `seed`
NoPayload == [seed |-> 0, len |-> 0]
Payloads == [seed : {1}, len : {1, MAX_UPLOAD_SIZE, MAX_UPLOAD_SIZE + 1}]
NoPhoto == [content_type |-> "", content |-> NoPayload, filename |-> ""]
Photos ==
  [content_type : {"image/png"}, content : Payloads, filename : {"cat.png", "dog.png"}]
  \cup [content_type : {"text/plain"},
        content : [seed : {1}, len : {1, MAX_UPLOAD_SIZE + 1}],
        filename : {"notes.txt"}]
NoUrl == [prefix |-> "", name |-> <<0, "">>]
NoResponse == [status |-> 0, detail |-> ""]

VARIABLES
  now,        \* the wall clock, seconds
  redis,      \* the shared store: key -> [count, expireAt], present keys only
  pc,         \* each worker's position
  user,       \* each worker's user id handed to check_rate_limit (0: none)
  key,        \* each worker's local `key` in check_rate_limit
  result,     \* each worker's return value of check_rate_limit
  ncalls,     \* direct calls of check_rate_limit issued so far
  calls,      \* per key: pipelines executed for it
  allowed,    \* per key: of those, the ones that return True
  straddled,  \* per key: some pipeline for it ran outside its bucket
  restarted,  \* per key: some pipeline found it expired after earlier calls
  lastExec,   \* per key: time of the last pipeline executed for it (-1: none)
  token,      \* each request's bearer token
  photo,      \* each request's uploaded file
  err,        \* the exception caught by the handler's or dependency's except
  raised,     \* the exception propagating out of the request
  thrown,     \* the exception that entered get_db's generator
  trace,      \* each request's operations so far, in order
  fs,         \* the upload store: path -> content, existing files only
  dirs,       \* the directories that exist
  pending,    \* each session's uncommitted pet rows
  pets,       \* the committed pet rows
  url,        \* each request's pet.photo_url
  resp        \* each request's response

limiterVars == <<redis, calls, allowed, straddled, restarted, lastExec>>
callVars == <<user, key, result>>
requestVars == <<token, photo, err, raised, thrown, url, resp>>
storeVars == <<fs, dirs>>
dbVars == <<pending, pets>>
vars == <<now, pc, ncalls, limiterVars, callVars, requestVars, trace, storeVars, dbVars>>

\* ------------------------------------------------------------- the limiter
\* key = f"rate_limit:{user_id}:{current // 60}"
RateKey(user_id, current) == <<user_id, current \div BucketWidth>>

\* INCR: an absent key counts from 0 and is created without a time to live
Incr(store, k) ==
  IF k \in DOMAIN store
    THEN [store EXCEPT ![k].count = @ + 1]
    ELSE store @@ (k :> [count |-> 1, expireAt |-> NoExpiry])

ExpireNever(store, k, t, secs) == store

\* EXPIRE key secs: (re)sets the time to live of an existing key
Expire(store, k, t, secs) ==
  IF k \in DOMAIN store
    THEN [store EXCEPT ![k].expireAt = t + secs]
    ELSE store

\* pipe.incr(key); pipe.expire(key, 90); pipe.execute(): one MULTI/EXEC
PipeExecute(store, k, t) == Expire(Incr(store, k), k, t, ExpireSeconds)

WithinLimitStrict(count) == count < RATE_LIMIT_PER_MINUTE

\* return result[0] <= settings.RATE_LIMIT_PER_MINUTE
WithinLimit(count) == count <= RATE_LIMIT_PER_MINUTE

\* the store drops a key once its time to live has run out
Expired(store, t) ==
  {k \in DOMAIN store : store[k].expireAt # NoExpiry /\ store[k].expireAt <= t}

Drop(store, ks) == [k \in (DOMAIN store) \ ks |-> store[k]]

\* current = int(time.time()); key = ...
ReadClock(w) ==
  /\ pc[w] = "rl_clock"
  /\ key' = [key EXCEPT ![w] = RateKey(user[w], now)]
  /\ pc' = [pc EXCEPT ![w] = "rl_pipe"]
  /\ UNCHANGED <<now, ncalls, limiterVars, user, result, requestVars, trace, storeVars, dbVars>>

\* result = pipe.execute()
RunPipeline(w) ==
  /\ pc[w] = "rl_pipe"
  /\ LET k == key[w]
         store == PipeExecute(redis, k, now)
     IN /\ redis' = store
        /\ result' = [result EXCEPT ![w] =
                        IF WithinLimit(store[k].count) THEN "True" ELSE "False"]
        /\ calls' = [calls EXCEPT ![k] = @ + 1]
        /\ allowed' = [allowed EXCEPT ![k] =
                         IF WithinLimit(store[k].count) THEN @ + 1 ELSE @]
        /\ straddled' = [straddled EXCEPT ![k] =
                           @ \/ (now \div BucketWidth # k[2])]
        /\ restarted' = [restarted EXCEPT ![k] =
                           @ \/ (calls[k] > 0 /\ k \notin DOMAIN redis)]
        /\ lastExec' = [lastExec EXCEPT ![k] = now]
  /\ trace' = [trace EXCEPT ![w] = Append(@, "incr")]
  /\ pc' = [pc EXCEPT ![w] = "rl_ret"]
  /\ UNCHANGED <<now, ncalls, user, key, requestVars, storeVars, dbVars>>

\* a caller invokes check_rate_limit(user_id)
CallCheckRateLimit(w, u) ==
  /\ pc[w] = "idle"
  /\ ncalls < MaxCalls
  /\ ncalls' = ncalls + 1
  /\ user' = [user EXCEPT ![w] = u]
  /\ pc' = [pc EXCEPT ![w] = "rl_clock"]
  /\ UNCHANGED <<now, limiterVars, key, result, requestVars, trace, storeVars, dbVars>>

\* check_rate_limit returns to its caller
ReturnCheckRateLimit(w) ==
  /\ pc[w] = "rl_ret"
  /\ pc' = [pc EXCEPT ![w] = "idle"]
  /\ result' = [result EXCEPT ![w] = "None"]
  /\ trace' = [trace EXCEPT ![w] = << >>]
  /\ UNCHANGED <<now, ncalls, limiterVars, user, key, requestVars, storeVars, dbVars>>

\* time passes; keys whose time to live ran out disappear
Tick ==
  /\ now + TickLen <= MaxTime
  /\ now' = now + TickLen
  /\ redis' = Drop(redis, Expired(redis, now + TickLen))
  /\ UNCHANGED <<pc, ncalls, calls, allowed, straddled, restarted, lastExec, callVars,
                 requestVars, trace, storeVars, dbVars>>

\* the state of the workers and of the stores before any request
InitLocals ==
  /\ now = 0
  /\ pc = [w \in Workers |-> "idle"]
  /\ user = [w \in Workers |-> 0]
  /\ key = [w \in Workers |-> <<0, 0>>]
  /\ result = [w \in Workers |-> "None"]
  /\ ncalls = 0
  /\ straddled = [k \in Keys |-> FALSE]
  /\ restarted = [k \in Keys |-> FALSE]
  /\ token = [w \in Workers |-> "None"]
  /\ photo = [w \in Workers |-> NoPhoto]
  /\ err = [w \in Workers |-> NoError]
  /\ raised = [w \in Workers |-> NoError]
  /\ thrown = [w \in Workers |-> NoError]
  /\ trace = [w \in Workers |-> << >>]
  /\ fs = << >>
  /\ dirs = {}
  /\ pending = [w \in Workers |-> << >>]
  /\ pets = << >>
  /\ url = [w \in Workers |-> NoUrl]
  /\ resp = [w \in Workers |-> NoResponse]

InitLimiter ==
  /\ InitLocals
  /\ redis = << >>
  /\ calls = [k \in Keys |-> 0]
  /\ allowed = [k \in Keys |-> 0]
  /\ lastExec = [k \in Keys |-> -1]

NextLimiter ==
  \/ \E w \in Workers, u \in UserIds : CallCheckRateLimit(w, u)
  \/ \E w \in Workers : ReadClock(w)
  \/ \E w \in Workers : RunPipeline(w)
  \/ \E w \in Workers : ReturnCheckRateLimit(w)
  \/ Tick

SpecLimiter == InitLimiter /\ [][NextLimiter]_vars

\* ------------------------------------------------- app/db/session.py get_db
\* db = SessionLocal(); yield db   (the request's dependencies are resolved)
StartRequest(w, tok) ==
  /\ pc[w] = "idle"
  /\ token' = [token EXCEPT ![w] = tok]
  /\ trace' = [trace EXCEPT ![w] = <<"session">>]
  /\ pc' = [pc EXCEPT ![w] = "verify"]
  /\ UNCHANGED <<now, ncalls, limiterVars, callVars, photo, err, raised, thrown,
                 url, resp, storeVars, dbVars>>

ExceptOnlyDatabaseErrors(e) ==
  IF e.kind = "SQLAlchemyError" THEN "db_rollback" ELSE "db_close"

\* except SQLAlchemyError / except Exception: both roll back and re-raise
ExceptClause(e) == "db_rollback"

\* yield db returned normally: db.commit(), which can itself fail
Commit(w) ==
  /\ pc[w] = "db_commit"
  /\ \/ /\ pets' = pets \o pending[w]
        /\ pending' = [pending EXCEPT ![w] = << >>]
        /\ trace' = [trace EXCEPT ![w] = Append(@, "commit")]
        /\ pc' = [pc EXCEPT ![w] = "db_close"]
        /\ UNCHANGED <<raised, thrown>>
     \/ /\ raised' = [raised EXCEPT ![w] = SQLAlchemyError("commit failed")]
        /\ thrown' = [thrown EXCEPT ![w] = SQLAlchemyError("commit failed")]
        /\ trace' = [trace EXCEPT ![w] = Append(@, "commit_failed")]
        /\ pc' = [pc EXCEPT ![w] = ExceptClause(SQLAlchemyError("commit failed"))]
        /\ UNCHANGED dbVars
  /\ UNCHANGED <<now, ncalls, limiterVars, callVars, token, photo, err, url, resp,
                 storeVars>>

\* db.rollback(); logger.error(...); raise
Rollback(w) ==
  /\ pc[w] = "db_rollback"
  /\ pending' = [pending EXCEPT ![w] = << >>]
  /\ trace' = [trace EXCEPT ![w] = Append(@, "rollback")]
  /\ pc' = [pc EXCEPT ![w] = "db_close"]
  /\ UNCHANGED <<now, ncalls, limiterVars, callVars, requestVars, storeVars, pets>>

\* what the client receives for an exception that leaves the request
ResponseFor(e) ==
  IF e.kind = "None" THEN [status |-> 200, detail |-> "OK"]
  ELSE IF e.kind = "HTTPException" THEN [status |-> e.status, detail |-> e.detail]
  ELSE [status |-> 500, detail |-> "Internal Server Error"]

\* finally: db.close()
Close(w) ==
  /\ pc[w] = "db_close"
  /\ pending' = [pending EXCEPT ![w] = << >>]
  /\ trace' = [trace EXCEPT ![w] = Append(@, "close")]
  /\ resp' = [resp EXCEPT ![w] = ResponseFor(raised[w])]
  /\ pc' = [pc EXCEPT ![w] = "done"]
  /\ UNCHANGED <<now, ncalls, limiterVars, callVars, token, photo, err, raised,
                 thrown, url, storeVars, pets>>

\* --------------------------------------------- app/api/deps.py get_current_user
Tokens == {"valid", "unknown_subject", "expired", "malformed"}

\* verify_token: the claims of a token, or the failure it raises
VerifyToken(tok) ==
  CASE tok = "valid" -> [ok |-> TRUE, sub |-> 1, error |-> NoError]
    [] tok = "unknown_subject" -> [ok |-> TRUE, sub |-> 2, error |-> NoError]
    [] tok = "expired" ->
         [ok |-> FALSE, sub |-> 0, error |-> Unauthorized("Signature has expired")]
    [] OTHER ->
         [ok |-> FALSE, sub |-> 0, error |-> Unauthorized("Invalid token")]

\* an exception leaves a try body for its except clause
Catch(w, e, handler) ==
  /\ err' = [err EXCEPT ![w] = e]
  /\ pc' = [pc EXCEPT ![w] = handler]

VerifyIgnoringFailure(w) ==
  /\ pc[w] = "verify"
  /\ user' = [user EXCEPT ![w] = VerifyToken(token[w]).sub]
  /\ pc' = [pc EXCEPT ![w] = "query"]
  /\ trace' = [trace EXCEPT ![w] = Append(@, "verify")]
  /\ UNCHANGED <<now, ncalls, limiterVars, key, result, requestVars, storeVars, dbVars>>

\* payload = verify_token(token)
Verify(w) ==
  /\ pc[w] = "verify"
  /\ LET v == VerifyToken(token[w])
     IN IF v.ok
          THEN /\ user' = [user EXCEPT ![w] = v.sub]
               /\ pc' = [pc EXCEPT ![w] = "query"]
               /\ UNCHANGED err
          ELSE /\ Catch(w, v.error, "gcu_except")
               /\ UNCHANGED user
  /\ trace' = [trace EXCEPT ![w] = Append(@, "verify")]
  /\ UNCHANGED <<now, ncalls, limiterVars, key, result, token, photo, raised, thrown,
                 url, resp, storeVars, dbVars>>

AnySubject(sub) == TRUE

\* db.query(User).filter(User.id == payload["sub"]).first() finds a row
UserExists(sub) == sub \in UserIds

\* user = db.query(...).first(); if not user: raise 404
Query(w) ==
  /\ pc[w] = "query"
  /\ IF UserExists(user[w])
       THEN /\ pc' = [pc EXCEPT ![w] = "rl_clock"]
            /\ UNCHANGED err
       ELSE Catch(w, HTTPException(404, "User not found"), "gcu_except")
  /\ trace' = [trace EXCEPT ![w] = Append(@, "query")]
  /\ UNCHANGED <<now, ncalls, limiterVars, callVars, token, photo, raised, thrown,
                 url, resp, storeVars, dbVars>>

\* if not check_rate_limit(user.id): raise 429; return user
AfterRateLimit(w) ==
  /\ pc[w] = "rl_ret"
  /\ IF result[w] = "True"
       THEN /\ pc' = [pc EXCEPT ![w] = "handler"]
            /\ UNCHANGED err
       ELSE Catch(w, HTTPException(429, "Rate limit exceeded"), "gcu_except")
  /\ UNCHANGED <<now, ncalls, limiterVars, callVars, token, photo, raised, thrown,
                 url, resp, trace, storeVars, dbVars>>

\* str(e): Exception.__str__ gives the positional constructor arguments, of
\* which an HTTPException built with keywords has none; later Starlette
\* releases define __str__ as "<status_code>: <detail>"
Str(e) ==
  IF e.kind = "HTTPException"
    THEN {"", ToString(e.status) \o ": " \o e.detail}
    ELSE {e.detail}

\* except Exception as e: raise HTTPException(401, detail=str(e))
GcuExcept(w) ==
  /\ pc[w] = "gcu_except"
  /\ \E d \in Str(err[w]) :
       /\ raised' = [raised EXCEPT ![w] = HTTPException(401, d)]
       /\ thrown' = [thrown EXCEPT ![w] = HTTPException(401, d)]
       /\ pc' = [pc EXCEPT ![w] = ExceptClause(HTTPException(401, d))]
  /\ UNCHANGED <<now, ncalls, limiterVars, callVars, token, photo, err, url, resp,
                 trace, storeVars, dbVars>>

\* ------------------------------------- app/api/v1/endpoints/pets.py create_pet
\* hashlib.sha256(content).hexdigest(): distinct contents, distinct digests
Sha256(content) == content.len * 16 + content.seed

\* os.path.splitext(filename)[1]
Splitext(filename) ==
  CASE filename = "cat.png" -> ".png"
    [] filename = "dog.png" -> ".png"
    [] filename = "notes.txt" -> ".txt"
    [] OTHER -> ""

OriginalFilename(content, filename) == <<0, filename>>

\* secure_filename = f"{file_hash}{ext}"
SecureFilename(content, filename) == <<Sha256(content), Splitext(filename)>>

\* file_path = os.path.join("uploads/pets", secure_filename)
FilePath(name) == [dir |-> "uploads/pets", name |-> name]

\* f"/static/pets/{secure_filename}"
PhotoUrl(name) == [prefix |-> "/static/pets/", name |-> name]

AnyType(content_type) == TRUE

\* file.content_type in settings.ALLOWED_FILE_TYPES
TypeAllowed(content_type) == content_type \in ALLOWED_FILE_TYPES

SizeAllowedStrict(n) == n < MAX_UPLOAD_SIZE

\* not (len(content) > settings.MAX_UPLOAD_SIZE)
SizeAllowed(n) == n <= MAX_UPLOAD_SIZE

\* the bytes of a file after `content` is written at its start
WriteAtStart(old, content) ==
  IF old = << >> \/ Head(old).len <= content.len
    THEN <<content>>
    ELSE <<content, [seed |-> Head(old).seed, len |-> Head(old).len - content.len]>>

\* the handler is entered with the request's file part, if any
EnterCreatePet(w, ph) ==
  /\ pc[w] = "handler"
  /\ photo' = [photo EXCEPT ![w] = ph]
  /\ pc' = [pc EXCEPT ![w] = IF ph = NoPhoto THEN "crud" ELSE "v_type"]
  /\ UNCHANGED <<now, ncalls, limiterVars, callVars, token, err, raised, thrown,
                 url, resp, trace, storeVars, dbVars>>

\* validate_file: if file.content_type not in ALLOWED_FILE_TYPES: raise 400
ValidateType(w) ==
  /\ pc[w] = "v_type"
  /\ IF TypeAllowed(photo[w].content_type)
       THEN /\ pc' = [pc EXCEPT ![w] = "v_size"]
            /\ UNCHANGED err
       ELSE Catch(w, HTTPException(400, "File type not allowed"), "cp_except")
  /\ trace' = [trace EXCEPT ![w] = Append(@, "type_check")]
  /\ UNCHANGED <<now, ncalls, limiterVars, callVars, token, photo, raised, thrown,
                 url, resp, storeVars, dbVars>>

\* content = await file.read(); if len(content) > MAX_UPLOAD_SIZE: raise 400
ValidateSize(w) ==
  /\ pc[w] = "v_size"
  /\ IF SizeAllowed(photo[w].content.len)
       THEN /\ pc' = [pc EXCEPT ![w] = "makedirs"]
            /\ UNCHANGED err
       ELSE Catch(w, HTTPException(400, "File size exceeds maximum"), "cp_except")
  /\ trace' = [trace EXCEPT ![w] = @ \o <<"read", "size_check">>]
  /\ UNCHANGED <<now, ncalls, limiterVars, callVars, token, photo, raised, thrown,
                 url, resp, storeVars, dbVars>>

\* os.makedirs("uploads/pets", exist_ok=True)
Makedirs(w) ==
  /\ pc[w] = "makedirs"
  /\ dirs' = dirs \cup {"uploads/pets"}
  /\ trace' = [trace EXCEPT ![w] = Append(@, "makedirs")]
  /\ pc' = [pc EXCEPT ![w] = "open"]
  /\ UNCHANGED <<now, ncalls, limiterVars, callVars, requestVars, fs, dbVars>>

\* aiofiles.open(file_path, 'wb'): creates the file or truncates it
OpenFile(w) ==
  /\ pc[w] = "open"
  /\ LET path == FilePath(SecureFilename(photo[w].content, photo[w].filename))
     IN fs' = IF path \in DOMAIN fs THEN [fs EXCEPT ![path] = << >>]
                                    ELSE fs @@ (path :> << >>)
  /\ trace' = [trace EXCEPT ![w] = Append(@, "open_file")]
  /\ pc' = [pc EXCEPT ![w] = "write"]
  /\ UNCHANGED <<now, ncalls, limiterVars, callVars, requestVars, dirs, dbVars>>

\* await f.write(content); pet.photo_url = f"/static/pets/{secure_filename}"
WriteFile(w) ==
  /\ pc[w] = "write"
  /\ LET name == SecureFilename(photo[w].content, photo[w].filename)
     IN /\ fs' = [fs EXCEPT ![FilePath(name)] = WriteAtStart(@, photo[w].content)]
        /\ url' = [url EXCEPT ![w] = PhotoUrl(name)]
  /\ trace' = [trace EXCEPT ![w] = Append(@, "write")]
  /\ pc' = [pc EXCEPT ![w] = "crud"]
  /\ UNCHANGED <<now, ncalls, limiterVars, callVars, token, photo, err, raised,
                 thrown, resp, dirs, dbVars>>

\* db_pet = pet_crud.create(db, obj_in=pet, owner_id=current_user.id)
CreatePetRow(w) ==
  /\ pc[w] = "crud"
  /\ \/ /\ pending' = [pending EXCEPT ![w] =
                         Append(@, [owner_id |-> user[w], photo_url |-> url[w]])]
        /\ pc' = [pc EXCEPT ![w] = "db_commit"]
        /\ UNCHANGED err
     \/ /\ Catch(w, SQLAlchemyError("insert failed"), "cp_except")
        /\ UNCHANGED pending
  /\ trace' = [trace EXCEPT ![w] = Append(@, "create")]
  /\ UNCHANGED <<now, ncalls, limiterVars, callVars, token, photo, raised, thrown,
                 url, resp, storeVars, pets>>

\* except Exception as e: raise HTTPException(500, "Could not create pet")
CreatePetExcept(w) ==
  /\ pc[w] = "cp_except"
  /\ raised' = [raised EXCEPT ![w] = HTTPException(500, "Could not create pet")]
  /\ thrown' = [thrown EXCEPT ![w] = HTTPException(500, "Could not create pet")]
  /\ pc' = [pc EXCEPT ![w] =
              ExceptClause(HTTPException(500, "Could not create pet"))]
  /\ UNCHANGED <<now, ncalls, limiterVars, callVars, token, photo, err, url, resp,
                 trace, storeVars, dbVars>>

\* counters the store can hold when the requests arrive
SeedCounts == {0, RATE_LIMIT_PER_MINUTE - 1, RATE_LIMIT_PER_MINUTE}

Init ==
  /\ InitLocals
  /\ \E c \in SeedCounts :
       /\ redis = IF c = 0 THEN << >>
                  ELSE (<<1, 0>> :> [count |-> c, expireAt |-> ExpireSeconds])
       /\ calls = [k \in Keys |-> IF k = <<1, 0>> THEN c ELSE 0]
       /\ allowed = [k \in Keys |-> IF k = <<1, 0>>
                                       THEN Min(c, RATE_LIMIT_PER_MINUTE) ELSE 0]
       /\ lastExec = [k \in Keys |-> IF k = <<1, 0>> /\ c > 0 THEN 0 ELSE -1]

Next ==
  \/ \E w \in Workers, tok \in Tokens : StartRequest(w, tok)
  \/ \E w \in Workers : Verify(w)
  \/ \E w \in Workers : Query(w)
  \/ \E w \in Workers : ReadClock(w)
  \/ \E w \in Workers : RunPipeline(w)
  \/ \E w \in Workers : AfterRateLimit(w)
  \/ \E w \in Workers : GcuExcept(w)
  \/ \E w \in Workers, ph \in Photos \cup {NoPhoto} : EnterCreatePet(w, ph)
  \/ \E w \in Workers : ValidateType(w)
  \/ \E w \in Workers : ValidateSize(w)
  \/ \E w \in Workers : Makedirs(w)
  \/ \E w \in Workers : OpenFile(w)
  \/ \E w \in Workers : WriteFile(w)
  \/ \E w \in Workers : CreatePetRow(w)
  \/ \E w \in Workers : CreatePetExcept(w)
  \/ \E w \in Workers : Commit(w)
  \/ \E w \in Workers : Rollback(w)
  \/ \E w \in Workers : Close(w)
  \/ Tick

Spec == Init /\ [][Next]_vars

\* ------------------------------------------------------------------ claims
Has(w, ev) == \E i \in 1..Len(trace[w]) : trace[w][i] = ev
Count(w, ev) == Cardinality({i \in 1..Len(trace[w]) : trace[w][i] = ev})
IndexOf(w, ev) == CHOOSE i \in 1..Len(trace[w]) : trace[w][i] = ev
CountOf(store, k) == IF k \in DOMAIN store THEN store[k].count ELSE 0
Acts(w) == pc'[w] # pc[w]

\* C1 as stated: of the N calls of check_rate_limit(U) whose clock read
\* falls in one 60-second bucket, exactly min(N, RATE_LIMIT_PER_MINUTE)
\* return True and the others False, in any interleaving
C1_AnyInterleaving ==
  \A k \in Keys : allowed[k] = Min(calls[k], RATE_LIMIT_PER_MINUTE)

\* C1 as amended: the same, for the calls of a bucket between which the
\* counter key has not expired, as is the case when every one of them runs
\* its pipeline inside the bucket its clock read selected
C1_ExactlyMinAllowed ==
  \A k \in Keys :
    /\ ~restarted[k] => allowed[k] = Min(calls[k], RATE_LIMIT_PER_MINUTE)
    /\ ~straddled[k] => ~restarted[k]

C1_Witness ==
  \E k \in Keys : /\ ~straddled[k]
                  /\ calls[k] > RATE_LIMIT_PER_MINUTE
                  /\ allowed[k] = RATE_LIMIT_PER_MINUTE
                  /\ \E w \in Workers : pc[w] = "rl_ret" /\ result[w] = "False"

\* C2: every failure of get_current_user reaches the caller as 401 whose
\* detail is the message of the original error
GetCurrentUserFailed(w) == err[w] # NoError /\ result[w] # "True"

C2_UnauthorizedWithOriginalMessage ==
  \A w \in Workers :
    (pc[w] = "done" /\ GetCurrentUserFailed(w)) =>
      /\ resp[w].status = 401
      /\ resp[w].detail = err[w].detail

\* C3: an expired token is rejected like a malformed one, with 401, and the
\* user lookup runs only after verify_token has returned claims
C3_NoLookupWithoutClaims ==
  \A w \in Workers :
    /\ token[w] \in {"expired", "malformed"} =>
         /\ ~Has(w, "query")
         /\ pc[w] = "done" => resp[w].status = 401
    /\ Has(w, "query") =>
         /\ VerifyToken(token[w]).ok
         /\ Has(w, "verify")
         /\ IndexOf(w, "verify") < IndexOf(w, "query")

C3_Witness ==
  \E w1, w2 \in Workers :
    /\ token[w1] = "expired" /\ token[w2] = "malformed"
    /\ pc[w1] = "done" /\ pc[w2] = "done"
    /\ resp[w1].status = 401 /\ resp[w2].status = 401

\* C4: the session is committed when the unit of work completes, rolled back
\* with the same error re-raised when anything fails (the commit included),
\* and closed exactly once, last, on every path
IsSessionEvent(ev) == ev \in {"commit", "commit_failed", "rollback", "close"}
SessionEvents(w) == SelectSeq(trace[w], IsSessionEvent)

C4_CommitOrRollbackThenClose ==
  \A w \in Workers :
    /\ Count(w, "close") <= 1
    /\ Has(w, "commit") => err[w] = NoError
    /\ pc[w] = "done" =>
         \/ /\ thrown[w] = NoError /\ raised[w] = NoError
            /\ SessionEvents(w) = <<"commit", "close">>
         \/ /\ thrown[w].kind = "HTTPException" /\ raised[w] = thrown[w]
            /\ SessionEvents(w) = <<"rollback", "close">>
         \/ /\ thrown[w].kind = "SQLAlchemyError" /\ raised[w] = thrown[w]
            /\ SessionEvents(w) = <<"commit_failed", "rollback", "close">>

C4_Witness ==
  \E w1, w2 \in Workers :
    /\ pc[w1] = "done" /\ pc[w2] = "done"
    /\ SessionEvents(w1) = <<"commit_failed", "rollback", "close">>
    /\ raised[w1] = SQLAlchemyError("commit failed")
    /\ SessionEvents(w2) = <<"commit", "close">>
    /\ pets # << >>

\* C5: a photo of a type outside ALLOWED_FILE_TYPES is rejected before its
\* content is read or measured and before any directory or file is touched
BadType(w) == photo[w] # NoPhoto /\ photo[w].content_type \notin ALLOWED_FILE_TYPES

C5_TypeRejectedFirst ==
  /\ [](\A w \in Workers : BadType(w) =>
          /\ \A ev \in {"read", "size_check", "makedirs", "open_file", "write", "create"} :
               ~Has(w, ev)
          /\ Has(w, "type_check") => err[w] = HTTPException(400, "File type not allowed")
          /\ pc[w] = "done" => resp[w].status # 200)
  /\ [][\A w \in Workers : (BadType(w) /\ Acts(w)) => UNCHANGED storeVars]_vars

C5_Witness ==
  \E w \in Workers :
    /\ BadType(w) /\ photo[w].content.len > MAX_UPLOAD_SIZE
    /\ pc[w] = "done" /\ resp[w].status = 500

\* C6: an allowed photo longer than MAX_UPLOAD_SIZE is rejected, nothing of
\* it is written and no pet row is created; one of exactly MAX_UPLOAD_SIZE
\* bytes passes validation
TooLarge(w) ==
  /\ photo[w].content_type \in ALLOWED_FILE_TYPES
  /\ photo[w].content.len > MAX_UPLOAD_SIZE

C6_OversizeWritesNothing ==
  /\ [](\A w \in Workers :
          /\ TooLarge(w) =>
               /\ \A ev \in {"makedirs", "open_file", "write", "create"} : ~Has(w, ev)
               /\ pending[w] = << >>
               /\ Has(w, "size_check") =>
                    err[w] = HTTPException(400, "File size exceeds maximum")
               /\ pc[w] = "done" => resp[w].status # 200
          /\ ( /\ photo[w].content_type \in ALLOWED_FILE_TYPES
               /\ photo[w].content.len = MAX_UPLOAD_SIZE
               /\ Has(w, "size_check") ) =>
               /\ err[w] # HTTPException(400, "File size exceeds maximum")
               /\ pc[w] # "cp_except" \/ Has(w, "create"))
  /\ [][\A w \in Workers : (TooLarge(w) /\ Acts(w)) => UNCHANGED <<storeVars, dbVars>>]_vars

C6_Witness ==
  \E w1, w2 \in Workers :
    /\ TooLarge(w1) /\ pc[w1] = "done" /\ resp[w1].status = 500
    /\ photo[w2].content.len = MAX_UPLOAD_SIZE /\ pc[w2] = "done"
    /\ resp[w2].status = 200
    /\ Len(pets) = 1
    /\ fs[FilePath(url[w2].name)] = <<photo[w2].content>>

\* C7: through create_pet, a rejected upload reaches the client as
\* UnsupportedMediaType (415) for a type outside the allow-set and as
\* PayloadTooLarge (413) for an oversize content
C7_KindSpecificStatus ==
  \A w \in Workers :
    pc[w] = "done" =>
      /\ BadType(w) => resp[w].status = 415
      /\ TooLarge(w) => resp[w].status = 413

\* C8: storing the same payload with the same extension twice gives the same
\* photo_url both times and leaves one file at the derived path, holding
\* exactly that payload
Stored(w) == Has(w, "write")

C8_StoreIdempotent ==
  \A w1, w2 \in Workers :
    ( /\ w1 # w2 /\ Stored(w1) /\ Stored(w2)
      /\ photo[w1].content = photo[w2].content
      /\ Splitext(photo[w1].filename) = Splitext(photo[w2].filename) ) =>
      /\ url[w1] = url[w2]
      /\ FilePath(url[w1].name) \in DOMAIN fs
      /\ (\A w3 \in Workers : pc[w3] = "write" => w3 \in {w1, w2} \/
             SecureFilename(photo[w3].content, photo[w3].filename) # url[w1].name)
           => fs[FilePath(url[w1].name)] = <<photo[w1].content>>
      /\ Cardinality({p \in DOMAIN fs :
                        /\ p.name[1] = Sha256(photo[w1].content)
                        /\ p.name[2] = Splitext(photo[w1].filename)}) = 1

C8_Witness ==
  \E w1, w2 \in Workers :
    /\ w1 # w2 /\ Stored(w1) /\ Stored(w2)
    /\ photo[w1].content = photo[w2].content
    /\ photo[w1].filename # photo[w2].filename
    /\ pc[w1] = "done" /\ pc[w2] = "done"
    /\ Cardinality(DOMAIN fs) = 1

\* C9: every counter key the limiter leaves in the store expires 90 seconds
\* after its last increment, so it is gone once 90 seconds pass without a call
C9_EveryCounterExpires ==
  \A k \in Keys :
    /\ k \in DOMAIN redis =>
         /\ redis[k].expireAt # NoExpiry
         /\ redis[k].expireAt = lastExec[k] + ExpireSeconds
    /\ (lastExec[k] >= 0 /\ now >= lastExec[k] + ExpireSeconds) => k \notin DOMAIN redis

C9_Witness ==
  \E k \in Keys : calls[k] > 1 /\ k \notin DOMAIN redis /\ now >= lastExec[k] + ExpireSeconds

\* C10: only a request with a verified token whose subject is an existing
\* user changes a rate-limit counter; one that reaches the rate-limit step
\* adds exactly one, also when it is then denied
C10_OnlyResolvedUsersCount ==
  /\ [](\A w \in Workers :
          /\ token[w] \in {"expired", "malformed", "unknown_subject"} => Count(w, "incr") = 0
          /\ result[w] # "None" => Count(w, "incr") = 1)
  /\ [][\A k \in Keys :
          CountOf(redis', k) # CountOf(redis, k) =>
            \/ k \in Expired(redis, now') /\ k \notin DOMAIN redis'
            \/ /\ CountOf(redis', k) = CountOf(redis, k) + 1
               /\ \E w \in Workers :
                    /\ pc[w] = "rl_pipe" /\ pc'[w] = "rl_ret" /\ key[w] = k
                    /\ VerifyToken(token[w]).ok
                    /\ VerifyToken(token[w]).sub \in UserIds
                    /\ k[1] = VerifyToken(token[w]).sub]_vars

C10_Witness ==
  \E w1, w2 \in Workers :
    /\ pc[w1] = "done" /\ result[w1] = "False" /\ Count(w1, "incr") = 1
    /\ pc[w2] = "done" /\ token[w2] = "unknown_subject"
    /\ resp[w2].status = 401
    /\ CountOf(redis, <<1, 0>>) = RATE_LIMIT_PER_MINUTE + 1
====
